---------------------------- MODULE Spec2Model ----------------------------
(***************************************************************************)
(* A model of gpt_investing.algorithm: the per-ticker extraction loop, the *)
(* cross-sectional normalisation, the value/momentum/risk scores, the      *)
(* composite, the descending sort and the top_n cap of analyze_universe.   *)
(*                                                                         *)
(* Python floats are modelled as exact fractions n/d that saturate to      *)
(* +inf / -inf once their magnitude exceeds FloatMax (a scaled-down        *)
(* DBL_MAX), with the IEEE-754 rules for inf and nan.  Rounding is not     *)
(* modelled.  Optional[float] adds the value None.                         *)
(***************************************************************************)
EXTENDS Integers, Sequences, FiniteSets, TLC

\* ------------------------------------------------------------------ bounds
\* Largest finite float magnitude of the model (stands for sys.float_info.max).
FloatMax == 4
\* Longest metric vector handed to _normalize in SpecNormalize.
MaxVector == 4
\* Longest input ticker sequence of SpecBatch (symbols may repeat).
MaxTickers == 3
\* Longest input ticker sequence of Spec (distinct symbols).
MaxUniverse == 3
\* Longest list handed to the sort in SpecSort.
MaxSortLen == 7

\* ------------------------------------------------------- program constants
LOOKBACK_DAYS == 21
\* math.isclose's default rel_tol is 1e-09 = 1 / RelTolInv (abs_tol is 0.0).
RelTolInv == 1000000000

\* ------------------------------------------------------------------ floats
None == [k |-> "none", n |-> 0, d |-> 1]
NaN  == [k |-> "nan",  n |-> 0, d |-> 1]
PInf == [k |-> "inf",  n |-> 1, d |-> 1]
NInf == [k |-> "inf",  n |-> -1, d |-> 1]

Abs(x) == IF x < 0 THEN -x ELSE x

RECURSIVE GCD(_, _)
GCD(a, b) == IF b = 0 THEN a ELSE GCD(b, a % b)

\* The float nearest the fraction n/d (d # 0): reduced, or an infinity on overflow.
Fl(n, d) ==
    LET s == IF d < 0 THEN -1 ELSE 1
        g == GCD(Abs(n), Abs(d))
        nn == (s * n) \div g
        dd == (s * d) \div g
    IN  IF Abs(nn) > FloatMax * dd
        THEN (IF nn > 0 THEN PInf ELSE NInf)
        ELSE [k |-> "fin", n |-> nn, d |-> dd]

Int2F(i) == Fl(i, 1)
Zero == Int2F(0)
One  == Int2F(1)

IsNone(a)   == a.k = "none"
IsNaN(a)    == a.k = "nan"
IsInf(a)    == a.k = "inf"
\* math.isfinite
IsFinite(a) == a.k = "fin"
Sign(a)     == IF a.n > 0 THEN 1 ELSE IF a.n < 0 THEN -1 ELSE 0

FNeg(a) == IF a.k = "nan" THEN NaN ELSE [a EXCEPT !.n = -a.n]

\* a + b
FAdd(a, b) ==
    IF IsNaN(a) \/ IsNaN(b) THEN NaN
    ELSE IF IsInf(a) /\ IsInf(b) THEN (IF a.n = b.n THEN a ELSE NaN)
    ELSE IF IsInf(a) THEN a
    ELSE IF IsInf(b) THEN b
    ELSE Fl(a.n * b.d + b.n * a.d, a.d * b.d)

\* a - b
FSub(a, b) == FAdd(a, FNeg(b))

\* a * b
FMul(a, b) ==
    IF IsNaN(a) \/ IsNaN(b) THEN NaN
    ELSE IF IsInf(a) \/ IsInf(b)
         THEN (IF Sign(a) * Sign(b) = 0 THEN NaN
               ELSE IF Sign(a) * Sign(b) > 0 THEN PInf ELSE NInf)
    ELSE Fl(a.n * b.n, a.d * b.d)

\* a / b for b # 0.0 (Python raises ZeroDivisionError on a zero divisor; the
\* callers below guard it where the source can reach it).
FDiv(a, b) ==
    IF IsNaN(a) \/ IsNaN(b) THEN NaN
    ELSE IF IsInf(a) /\ IsInf(b) THEN NaN
    ELSE IF IsInf(a) THEN (IF Sign(a) * Sign(b) > 0 THEN PInf ELSE NInf)
    ELSE IF IsInf(b) THEN Zero
    ELSE Fl(a.n * b.d, a.d * b.n)

\* a < b  (every comparison with nan is False)
FLess(a, b) ==
    IF IsNaN(a) \/ IsNaN(b) THEN FALSE
    ELSE IF IsInf(a) THEN a.n < 0 /\ ~(IsInf(b) /\ b.n < 0)
    ELSE IF IsInf(b) THEN b.n > 0
    ELSE a.n * b.d < b.n * a.d

\* a == b
FEq(a, b) == ~IsNaN(a) /\ ~IsNaN(b) /\ a = b

\* a >= b
FGeq(a, b) == FLess(b, a) \/ FEq(a, b)

FAbs(a) == IF IsNaN(a) THEN NaN ELSE [a EXCEPT !.n = Abs(a.n)]

\* math.isclose(a, b) for finite a, b:  |a - b| <= rel_tol * max(|a|, |b|)
IsClose(a, b) ==
    LET diff == FAbs(FSub(a, b))
        big  == IF FLess(FAbs(a), FAbs(b)) THEN FAbs(b) ELSE FAbs(a)
    IN  \/ a = b
        \/ /\ IsFinite(diff)
           /\ diff.n * big.d <= (big.n * diff.d) \div RelTolInv

\* 0.0 <= a <= 1.0
InUnit(a) == IsFinite(a) /\ 0 <= a.n /\ a.n <= a.d

\* ----------------------------------------------------------- sequences
Range(s) == {s[j] : j \in 1..Len(s)}

\* The keys of a dict kept as a sequence of records with a ticker field.
Keys(dict) == {dict[j].ticker : j \in 1..Len(dict)}

\* dict[ticker] for a key that is present.
Get(dict, ticker) == dict[CHOOSE j \in 1..Len(dict) : dict[j].ticker = ticker]

\* dict[e.ticker] = e : a new key goes last, an old key keeps its place.
DictSet(dict, e) ==
    IF e.ticker \in Keys(dict)
    THEN [j \in 1..Len(dict) |-> IF dict[j].ticker = e.ticker THEN e ELSE dict[j]]
    ELSE Append(dict, e)

\* ---------------------------------------------------------------- state
VARIABLES
    pc,               \* where the call stands
    tickers,          \* analyze_universe: the input ticker sequence
    idx,              \* number of loop iterations of lines 155-161 finished
    fetched,          \* the calls of _fetch_analysis so far: ticker and how each ended
    analyses,         \* dict ticker -> StockAnalysis, in insertion order
    failures,         \* dict ticker -> reason, in insertion order
    args,             \* value_weight, momentum_weight, risk_weight, top_n
    scores,           \* pe_scores, pb_scores, fcf_scores, momentum_scores, risk_scores
    scored,           \* ranked as built by lines 179-204
    ordered,          \* ranked after the sort of line 206
    outcome,          \* what the call did: a summary returned or an error raised
    metric,           \* _normalize: the metric dict
    higher_is_better, \* _normalize: the direction
    normalized        \* _normalize: the returned dict

vars == <<pc, tickers, idx, fetched, analyses, failures, args, scores, scored,
          ordered, outcome, metric, higher_is_better, normalized>>

universeVars == <<tickers, idx, fetched, analyses, failures, args, scores,
                  scored, ordered, outcome>>
normalizeVars == <<metric, higher_is_better, normalized>>

\* ------------------------------------------------------------ _normalize
\* valid = {ticker: value ... if value is not None and math.isfinite(value)}
Valid(m) == SelectSeq(m, LAMBDA e : ~IsNone(e.value) /\ IsFinite(e.value))

\* min(valid.values()) and max(valid.values()) over finite floats
MinValue(valid) ==
    (CHOOSE e \in Range(valid) : \A o \in Range(valid) : ~FLess(o.value, e.value)).value
MaxValue(valid) ==
    (CHOOSE e \in Range(valid) : \A o \in Range(valid) : ~FLess(e.value, o.value)).value

\* A variant that inverts the 0.0 of a ticker without a usable value as well.
NormalizeInvertingAbsent(m, hib) ==
    LET valid == Valid(m)
        lo == MinValue(valid)
        hi == MaxValue(valid)
        scale == FSub(hi, lo)
        flip(x) == IF hib THEN x ELSE FSub(One, x)
    IN  IF Len(valid) = 0
        THEN [j \in 1..Len(m) |-> [ticker |-> m[j].ticker, score |-> flip(Zero)]]
        ELSE IF IsClose(lo, hi)
        THEN [j \in 1..Len(m) |->
                [ticker |-> m[j].ticker,
                 score |-> IF m[j].ticker \in Keys(valid) THEN One ELSE Zero]]
        ELSE [j \in 1..Len(m) |->
                [ticker |-> m[j].ticker,
                 score |-> IF m[j].ticker \notin Keys(valid) THEN flip(Zero)
                           ELSE flip(FDiv(FSub(m[j].value, lo), scale))]]

\* _normalize(metric, higher_is_better)
Normalize(m, hib) ==
    LET valid == Valid(m)
        min_value == MinValue(valid)
        max_value == MaxValue(valid)
        scale == FSub(max_value, min_value)
    IN  IF Len(valid) = 0
        THEN [j \in 1..Len(m) |-> [ticker |-> m[j].ticker, score |-> Zero]]
        ELSE IF IsClose(min_value, max_value)
        THEN [j \in 1..Len(m) |->
                [ticker |-> m[j].ticker,
                 score |-> IF m[j].ticker \in Keys(valid) THEN One ELSE Zero]]
        ELSE [j \in 1..Len(m) |->
                [ticker |-> m[j].ticker,
                 score |-> IF m[j].ticker \notin Keys(valid) THEN Zero
                           ELSE LET score == FDiv(FSub(m[j].value, min_value), scale)
                                IN  IF ~hib THEN FSub(One, score) ELSE score]]

\* The values a metric takes in SpecNormalize: None, nan, inf and finite floats
\* of both signs up to the largest one.
MetricValues ==
    {None, NaN, PInf, Int2F(-FloatMax), Int2F(-1), Zero, One, Int2F(2),
     Int2F(FloatMax)}

\* The metric dict of tickers 1..n with the values f (analyze_universe calls
\* _normalize only on a non-empty analyses dict, so n >= 1).
MetricVector(n, f) == [j \in 1..n |-> [ticker |-> j, value |-> f[j]]]

NoScores == [pe |-> <<>>, pb |-> <<>>, fcf |-> <<>>, momentum |-> <<>>, risk |-> <<>>]
NoArgs == [value_weight |-> None, momentum_weight |-> None, risk_weight |-> None,
           top_n |-> 0, capped |-> FALSE]
NoOutcome == [kind |-> "none", ranked |-> <<>>, failures |-> <<>>,
              message |-> "", ticker |-> 0, cause |-> "", reasons |-> <<>>]

UniverseIdle ==
    /\ tickers = <<>> /\ idx = 0 /\ fetched = <<>> /\ analyses = <<>>
    /\ failures = <<>> /\ args = NoArgs /\ scores = NoScores /\ scored = <<>>
    /\ ordered = <<>> /\ outcome = NoOutcome

NormalizeIdle ==
    /\ metric = <<>> /\ higher_is_better = FALSE /\ normalized = <<>>

InitNormalize ==
    /\ pc = "normalize"
    /\ \E n \in 1..MaxVector : \E f \in [1..n -> MetricValues] :
          metric = MetricVector(n, f)
    /\ higher_is_better \in BOOLEAN
    /\ normalized = <<>>
    /\ UniverseIdle

CallNormalize ==
    /\ pc = "normalize"
    /\ normalized' = Normalize(metric, higher_is_better)
    /\ pc' = "normalized"
    /\ UNCHANGED <<metric, higher_is_better>>
    /\ UNCHANGED universeVars

NextNormalize == CallNormalize

SpecNormalize == InitNormalize /\ [][NextNormalize]_vars

\* ------------------------------------------------------ _fetch_analysis
\* What the data source hands _fetch_analysis for one call: raises is the
\* exception history() raises ("" for none), nclose = len(close), base =
\* close[-(LOOKBACK_DAYS + 1)], last = close[-1], nret = len(returns),
\* volatility = the value the arithmetic of _compute_volatility yields on the
\* returns, pe / pb = the value of info.get(..) or info.get(..), and the two
\* operands of the free-cash-flow yield.
Snapshot(raises, nclose, base, last, nret, volatility, pe, pb, market_cap, fcf) ==
    [raises |-> raises, nclose |-> nclose, base |-> base, last |-> last,
     nret |-> nret, volatility |-> volatility, pe |-> pe, pb |-> pb,
     market_cap |-> market_cap, free_cash_flow |-> fcf]

Success(analysis) == [tag |-> "ok", reason |-> "", analysis |-> analysis]
RaiseAnalysisError(reason) == [tag |-> "AnalysisError", reason |-> reason, analysis |-> None]
RaiseException(cause) == [tag |-> "Exception", reason |-> cause, analysis |-> None]

\* _compute_momentum(close_prices)
ComputeMomentum(snap) ==
    IF snap.nclose <= LOOKBACK_DAYS
    THEN RaiseAnalysisError("Not enough price history to compute momentum")
    ELSE IF snap.base = Zero
    THEN RaiseException("ZeroDivisionError")
    ELSE Success(FSub(FDiv(snap.last, snap.base), One))

\* _compute_volatility(returns)
ComputeVolatility(snap) ==
    IF snap.nret < LOOKBACK_DAYS
    THEN RaiseAnalysisError("Not enough return history to compute volatility")
    ELSE Success(snap.volatility)

\* bool(x) of an Optional[float]: None and 0.0 are falsy, nan is truthy
Truthy(x) == ~IsNone(x) /\ x # Zero

\* lines 108-116
FreeCashFlowYield(snap) ==
    IF ~IsNone(snap.free_cash_flow) /\ Truthy(snap.market_cap)
    THEN FDiv(snap.free_cash_flow, snap.market_cap)
    ELSE None

\* _fetch_analysis(ticker, period)
FetchAnalysis(ticker, snap) ==
    IF snap.raises # "" THEN RaiseException(snap.raises)
    ELSE IF snap.nclose = 0 THEN RaiseAnalysisError("No price history available")
    ELSE LET momentum == ComputeMomentum(snap)
             volatility == ComputeVolatility(snap)
         IN  IF momentum.tag # "ok" THEN momentum
             ELSE IF volatility.tag # "ok" THEN volatility
             ELSE Success([ticker |-> ticker,
                           momentum_21d |-> momentum.analysis,
                           volatility_21d |-> volatility.analysis,
                           pe_ratio |-> snap.pe,
                           pb_ratio |-> snap.pb,
                           free_cash_flow_yield |-> FreeCashFlowYield(snap),
                           market_cap |-> snap.market_cap])

\* ----------------------------------------------------------- list.sort
Reverse(s) == [j \in 1..Len(s) |-> s[Len(s) + 1 - j]]

\* The sort compares the keys with < only: key = composite_score.
KeyLess(x, y) == FLess(x.composite_score, y.composite_score)

\* count_run: the length of the run that starts the list, and whether it is
\* strictly descending.
RECURSIVE RunEnd(_, _, _)
RunEnd(a, j, descending) ==
    IF j > Len(a) THEN Len(a)
    ELSE IF KeyLess(a[j], a[j - 1]) = descending THEN RunEnd(a, j + 1, descending)
    ELSE j - 1

\* binarysort's search: where pivot goes in the sorted a[l+1 .. r] (0-based l, r).
RECURSIVE InsertionPoint(_, _, _, _)
InsertionPoint(a, pivot, l, r) ==
    IF l >= r THEN l
    ELSE LET p == l + ((r - l) \div 2)
         IN  IF KeyLess(pivot, a[p + 1])
             THEN InsertionPoint(a, pivot, l, p)
             ELSE InsertionPoint(a, pivot, p + 1, r)

\* binarysort: a[1 .. start-1] is sorted; insert a[start], a[start+1], ...
RECURSIVE BinarySort(_, _)
BinarySort(a, start) ==
    IF start > Len(a) THEN a
    ELSE LET pivot == a[start]
             l == InsertionPoint(a, pivot, 0, start - 1)
             moved == [j \in 1..Len(a) |->
                          IF j <= l THEN a[j]
                          ELSE IF j = l + 1 THEN pivot
                          ELSE IF j <= start THEN a[j - 1]
                          ELSE a[j]]
         IN  BinarySort(moved, start + 1)

\* list.sort() of fewer than 64 items (one run, extended by binary insertion).
SortAscending(a) ==
    IF Len(a) < 2 THEN a
    ELSE LET descending == KeyLess(a[2], a[1])
             n == RunEnd(a, 3, descending)
             run == IF descending
                    THEN [j \in 1..Len(a) |-> IF j <= n THEN a[n + 1 - j] ELSE a[j]]
                    ELSE a
         IN  BinarySort(run, n + 1)

\* ranked.sort(key=lambda item: item.composite_score, reverse=True): the list
\* is reversed, sorted ascending and reversed again.
SortDescending(a) == Reverse(SortAscending(Reverse(a)))

\* ranked[:top_n]
SliceTo(a, top_n) ==
    LET stop == IF top_n < 0
                THEN (IF Len(a) + top_n < 0 THEN 0 ELSE Len(a) + top_n)
                ELSE (IF top_n > Len(a) THEN Len(a) ELSE top_n)
    IN  SubSeq(a, 1, stop)

\* ------------------------------------------------------ analyze_universe
\* lines 167-171: one metric dict over analyses
MetricOf(dict, field) ==
    [j \in 1..Len(dict) |-> [ticker |-> dict[j].ticker, value |-> dict[j][field]]]

\* lines 173-177
ScoresOf(dict) ==
    [pe       |-> Normalize(MetricOf(dict, "pe_ratio"), FALSE),
     pb       |-> Normalize(MetricOf(dict, "pb_ratio"), FALSE),
     fcf      |-> Normalize(MetricOf(dict, "free_cash_flow_yield"), TRUE),
     momentum |-> Normalize(MetricOf(dict, "momentum_21d"), TRUE),
     risk     |-> Normalize(MetricOf(dict, "volatility_21d"), FALSE)]

\* sum(xs): 0 + xs[1] + xs[2] + ...
RECURSIVE Sum(_)
Sum(xs) == IF xs = <<>> THEN Zero ELSE FAdd(Sum(SubSeq(xs, 1, Len(xs) - 1)), xs[Len(xs)])

\* lines 181-187
ValueComponents(a, sc) ==
    (IF ~IsNone(a.pe_ratio) THEN <<Get(sc.pe, a.ticker).score>> ELSE <<>>)
    \o (IF ~IsNone(a.pb_ratio) THEN <<Get(sc.pb, a.ticker).score>> ELSE <<>>)
    \o (IF ~IsNone(a.free_cash_flow_yield) THEN <<Get(sc.fcf, a.ticker).score>> ELSE <<>>)

\* A variant that always averages over the three valuation fields.
ValueScoreOverThree(a, sc) ==
    FDiv(Sum(ValueComponents(a, sc)), Int2F(3))

\* line 189
ValueScore(a, sc) ==
    LET value_components == ValueComponents(a, sc)
    IN  IF value_components # <<>>
        THEN FDiv(Sum(value_components), Int2F(Len(value_components)))
        ELSE Zero

\* lines 190-194
Composite(w, value_score, momentum_score, risk_score) ==
    FAdd(FAdd(FMul(w.value_weight, value_score),
              FMul(w.momentum_weight, momentum_score)),
         FMul(w.risk_weight, risk_score))

\* lines 180-204: the RankedStock of one analysis (its analysis field refers
\* to the StockAnalysis object kept in analyses, named here by its key)
RankedStock(a, sc, w) ==
    LET value_score == ValueScore(a, sc)
        momentum_score == Get(sc.momentum, a.ticker).score
        risk_score == Get(sc.risk, a.ticker).score
    IN  [ticker |-> a.ticker,
         composite_score |-> Composite(w, value_score, momentum_score, risk_score),
         value_score |-> value_score,
         momentum_score |-> momentum_score,
         risk_score |-> risk_score,
         analysis |-> a.ticker]

\* line 157: analyses[ticker] = _fetch_analysis(...)
OnSuccess(ticker, r) ==
    /\ analyses' = DictSet(analyses, r.analysis)
    /\ idx' = idx + 1
    /\ UNCHANGED <<pc, failures, outcome>>

\* A variant that swallows a soft failure without recording it.
OnAnalysisErrorUnrecorded(ticker, r) ==
    /\ idx' = idx + 1
    /\ UNCHANGED <<pc, analyses, failures, outcome>>

\* A variant that lets a soft failure end the run.
OnAnalysisErrorAborting(ticker, r) ==
    /\ outcome' = [NoOutcome EXCEPT !.kind = "AnalysisError",
                                    !.message = "Failed to analyze",
                                    !.ticker = ticker, !.cause = r.reason]
    /\ pc' = "done"
    /\ UNCHANGED <<idx, analyses, failures>>

\* lines 158-159: failures[ticker] = str(exc)
OnAnalysisError(ticker, r) ==
    /\ failures' = DictSet(failures, [ticker |-> ticker, reason |-> r.reason])
    /\ idx' = idx + 1
    /\ UNCHANGED <<pc, analyses, outcome>>

\* A variant that treats an unexpected error as one more soft failure.
OnExceptionAsFailure(ticker, r) ==
    /\ failures' = DictSet(failures, [ticker |-> ticker, reason |-> r.reason])
    /\ idx' = idx + 1
    /\ UNCHANGED <<pc, analyses, outcome>>

\* lines 160-161: raise AnalysisError(f"Failed to analyze {ticker}: {exc}")
OnException(ticker, r) ==
    /\ outcome' = [NoOutcome EXCEPT !.kind = "AnalysisError",
                                    !.message = "Failed to analyze",
                                    !.ticker = ticker, !.cause = r.reason]
    /\ pc' = "done"
    /\ UNCHANGED <<idx, analyses, failures>>

\* One iteration of the loop of lines 155-161.
FetchStep(snapshots) ==
    /\ pc = "fetch"
    /\ idx < Len(tickers)
    /\ \E snap \in snapshots :
          LET ticker == tickers[idx + 1]
              r == FetchAnalysis(ticker, snap)
          IN  /\ fetched' = Append(fetched, [ticker |-> ticker, tag |-> r.tag,
                                                reason |-> r.reason])
              /\ CASE r.tag = "ok" -> OnSuccess(ticker, r)
                   [] r.tag = "AnalysisError" -> OnAnalysisError(ticker, r)
                   [] OTHER -> OnException(ticker, r)
    /\ UNCHANGED <<tickers, args, scores, scored, ordered>>
    /\ UNCHANGED normalizeVars

\* A variant that returns an empty ranking when nothing could be analysed.
ReturnEmptySummary ==
    /\ pc = "fetch"
    /\ idx = Len(tickers)
    /\ analyses = <<>>
    /\ outcome' = [NoOutcome EXCEPT !.kind = "AnalysisSummary", !.failures = failures]
    /\ pc' = "done"
    /\ UNCHANGED <<tickers, idx, fetched, analyses, failures, args, scores, scored, ordered>>
    /\ UNCHANGED normalizeVars

\* lines 163-165: raise AnalysisError("Unable to analyze any tickers. Reasons: ...")
RaiseUnable ==
    /\ pc = "fetch"
    /\ idx = Len(tickers)
    /\ analyses = <<>>
    /\ outcome' = [NoOutcome EXCEPT !.kind = "AnalysisError",
                                    !.message = "Unable to analyze any tickers",
                                    !.reasons = failures]
    /\ pc' = "done"
    /\ UNCHANGED <<tickers, idx, fetched, analyses, failures, args, scores, scored, ordered>>
    /\ UNCHANGED normalizeVars

\* lines 167-209 under the keyword arguments a.
ScoreAndRank(argsets) ==
    /\ pc = "fetch"
    /\ idx = Len(tickers)
    /\ analyses # <<>>
    /\ \E a \in argsets :
          /\ args' = a
          /\ scores' = ScoresOf(analyses)
          /\ scored' = [j \in 1..Len(analyses) |-> RankedStock(analyses[j], scores', a)]
          /\ ordered' = SortDescending(scored')
          /\ outcome' = [NoOutcome EXCEPT
                            !.kind = "AnalysisSummary",
                            !.ranked = IF a.capped THEN SliceTo(ordered', a.top_n)
                                       ELSE ordered',
                            !.failures = failures]
    /\ pc' = "done"
    /\ UNCHANGED <<tickers, idx, fetched, analyses, failures>>
    /\ UNCHANGED normalizeVars

\* ----------------------------------------------------------------- inputs
\* Ticker sequences of at most n symbols, each symbol named by the place of
\* its first occurrence (analyze_universe never looks into a symbol).
SeqsUpTo(n) == UNION {[1..m -> 1..n] : m \in 0..n}

IsFirstOccurrenceOrder(s) ==
    \A j \in 1..Len(s) : \A t \in 1..(s[j] - 1) : \E i \in 1..(j - 1) : s[i] = t

TickerSeqs(n) == {s \in SeqsUpTo(n) : IsFirstOccurrenceOrder(s)}

DistinctTickerSeqs(n) == {[j \in 1..m |-> j] : m \in 0..n}

\* A full price history: LOOKBACK_DAYS + 1 closes from base 1.0, LOOKBACK_DAYS returns.
OkSnapshots(pes, pbs, caps, fcfs, lasts, vols) ==
    {Snapshot("", LOOKBACK_DAYS + 1, One, last, LOOKBACK_DAYS, vol, pe, pb, cap, fcf) :
        pe \in pes, pb \in pbs, cap \in caps, fcf \in fcfs, last \in lasts, vol \in vols}

\* The three soft failures: no history, too few closes, too few returns.
SoftSnapshots ==
    {Snapshot("", 0, One, One, 0, One, None, None, None, None),
     Snapshot("", LOOKBACK_DAYS, One, One, LOOKBACK_DAYS - 1, One, None, None, None, None),
     Snapshot("", LOOKBACK_DAYS + 1, One, One, LOOKBACK_DAYS - 1, One, None, None, None, None)}

\* Two unexpected errors: the data source raises, and a zero base price.
HardSnapshots ==
    {Snapshot("ConnectionError", 0, One, One, 0, One, None, None, None, None),
     Snapshot("", LOOKBACK_DAYS + 1, Zero, One, LOOKBACK_DAYS, One, None, None, None, None)}

\* The data of Spec: one soft failure, one unexpected error, and successes
\* with (a) P/E and free-cash-flow yield each absent or at one of two values,
\* the yields of both signs up to the largest float, (b) a present but
\* non-finite P/B, (c) no valuation field and another momentum and volatility.
FineSnapshots ==
    {Snapshot("", 0, One, One, 0, One, None, None, None, None),
     Snapshot("ConnectionError", 0, One, One, 0, One, None, None, None, None)}
    \cup OkSnapshots({None, One, Int2F(2)}, {None}, {One},
                     {None, Int2F(-FloatMax), Int2F(FloatMax)}, {Int2F(2)}, {One})
    \cup OkSnapshots({None, One}, {NaN}, {One}, {None}, {Int2F(2)}, {One})
    \cup OkSnapshots({None}, {None}, {None}, {None}, {One, Int2F(3)}, {Int2F(2)})

\* The data of SpecBatch: every failure, and successes with the P/E present
\* or absent and the market cap zero or not.
CoarseSnapshots ==
    SoftSnapshots \cup HardSnapshots \cup
    OkSnapshots({None, One}, {None}, {Zero, One}, {One}, {Int2F(2)}, {One})

\* Keyword arguments: the default weights 0.5 / 0.3 / 0.2 or 1 / 0 / 1, and
\* top_n None, 0, 1 or the default 20.
DefaultTopN == 20
WeightSets ==
    {[value_weight |-> Fl(1, 2), momentum_weight |-> Fl(3, 10), risk_weight |-> Fl(1, 5)],
     [value_weight |-> One, momentum_weight |-> Zero, risk_weight |-> One]}
TopNSets(caps) ==
    {[capped |-> FALSE, top_n |-> 0]} \cup {[capped |-> TRUE, top_n |-> k] : k \in caps}
ArgsOver(weights, tops) ==
    {[value_weight |-> w.value_weight, momentum_weight |-> w.momentum_weight,
      risk_weight |-> w.risk_weight, top_n |-> t.top_n, capped |-> t.capped] :
        w \in weights, t \in tops}
DefaultWeights ==
    [value_weight |-> Fl(1, 2), momentum_weight |-> Fl(3, 10), risk_weight |-> Fl(1, 5)]
ArgSets == ArgsOver(WeightSets, TopNSets({1, DefaultTopN}))
BatchArgSets == ArgsOver({DefaultWeights}, TopNSets({0, 1, DefaultTopN}))

\* ------------------------------------------------------------------ specs
InitUniverse(seqs) ==
    /\ pc = "fetch"
    /\ tickers \in seqs
    /\ idx = 0 /\ fetched = <<>> /\ analyses = <<>> /\ failures = <<>>
    /\ args = NoArgs /\ scores = NoScores /\ scored = <<>> /\ ordered = <<>>
    /\ outcome = NoOutcome
    /\ NormalizeIdle

\* analyze_universe over distinct tickers and the fine data.
Init == InitUniverse(DistinctTickerSeqs(MaxUniverse))
Next ==
    \/ FetchStep(FineSnapshots)
    \/ RaiseUnable
    \/ ScoreAndRank(ArgSets)
Spec == Init /\ [][Next]_vars

\* analyze_universe over any ticker sequence (a symbol may repeat, and each
\* call of _fetch_analysis has its own outcome) and the coarse data.
InitBatch == InitUniverse(TickerSeqs(MaxTickers))
NextBatch ==
    \/ FetchStep(CoarseSnapshots)
    \/ RaiseUnable
    \/ ScoreAndRank(BatchArgSets)
SpecBatch == InitBatch /\ [][NextBatch]_vars

\* The sort of line 206 alone, on lists of up to MaxSortLen keys.
SortKeys == {Zero, One, NaN}
SortInput(n, f) == [j \in 1..n |-> [ticker |-> j, composite_score |-> f[j]]]
InitSort ==
    /\ pc = "sort"
    /\ \E n \in 1..MaxSortLen : \E f \in [1..n -> SortKeys] :
          scored = SortInput(n, f)
    /\ tickers = <<>> /\ idx = 0 /\ fetched = <<>> /\ analyses = <<>>
    /\ failures = <<>> /\ args = NoArgs /\ scores = NoScores
    /\ ordered = <<>> /\ outcome = NoOutcome
    /\ NormalizeIdle
CallSort ==
    /\ pc = "sort"
    /\ ordered' = SortDescending(scored)
    /\ pc' = "sorted"
    /\ UNCHANGED <<tickers, idx, fetched, analyses, failures, args, scores, scored, outcome>>
    /\ UNCHANGED normalizeVars
NextSort == CallSort
SpecSort == InitSort /\ [][NextSort]_vars

\* ------------------------------------------------------------ claims C5, C6
\* C5 (as stated): every ticker of every metric vector passed to _normalize
\* receives a normalized score that lies in [0, 1].
C5_ScoresInUnit ==
    pc = "normalized" =>
        \A j \in 1..Len(normalized) : InUnit(normalized[j].score)

\* C6: a ticker whose value is None or not finite receives exactly 0.0, in
\* either direction and whether the usable values are equal or span a range;
\* with no usable value at all every ticker receives exactly 0.0.
C6_AbsentScoresZero ==
    pc = "normalized" =>
        /\ Len(normalized) = Len(metric)
        /\ \A j \in 1..Len(metric) :
              /\ normalized[j].ticker = metric[j].ticker
              /\ (metric[j].value.k \in {"none", "nan", "inf"})
                    => normalized[j].score = Zero
        /\ (\A j \in 1..Len(metric) : metric[j].value.k # "fin")
              => \A j \in 1..Len(metric) : normalized[j].score = Zero

\* C6 witness: an inverted metric whose usable values span a range, with an
\* absent and a non-finite ticker beside them, has been normalized.
C6_Witness ==
    /\ pc = "normalized"
    /\ ~higher_is_better
    /\ \E a, b, c, e \in 1..Len(metric) :
          /\ IsNone(metric[a].value)
          /\ metric[b].value.k \in {"nan", "inf"}
          /\ IsFinite(metric[c].value) /\ IsFinite(metric[e].value)
          /\ metric[c].value # metric[e].value

\* ------------------------------------------------------- claims C1 .. C4
Returned == pc = "done" /\ outcome.kind = "AnalysisSummary"
RaisedError == pc = "done" /\ outcome.kind = "AnalysisError"
InputTickers == Range(tickers)
RankedTickers == Keys(outcome.ranked)
FailureTickers == Keys(outcome.failures)
Distinct(s) == \A i, j \in 1..Len(s) : s[i] = s[j] => i = j
\* The tickers some call of _fetch_analysis ended with tag for.
TickersThat(tag) == {fetched[j].ticker : j \in {i \in 1..Len(fetched) : fetched[i].tag = tag}}
NoUnexpectedError == \A j \in 1..Len(fetched) : fetched[j].tag # "Exception"
Min(a, b) == IF a < b THEN a ELSE b

C2_UnexpectedErrorAborts ==
    /\ Len(fetched) <= Len(tickers)
    /\ \A j \in 1..Len(fetched) :
          /\ fetched[j].ticker = tickers[j]
          /\ fetched[j].tag = "Exception" =>
                /\ j = Len(fetched)
                /\ pc = "done"
                /\ outcome.kind = "AnalysisError"
                /\ outcome.message = "Failed to analyze"
                /\ outcome.ticker = fetched[j].ticker
                /\ outcome.cause = fetched[j].reason
                /\ outcome.cause # ""
                /\ outcome.ranked = <<>> /\ outcome.failures = <<>>

\* C2 witness: after a success and a soft failure the third of three tickers
\* raised an unexpected error, or the second did and the third was never
\* extracted.
C2_Witness ==
    /\ Len(tickers) = 3
    /\ RaisedError
    /\ \/ /\ Len(fetched) = 3
          /\ fetched[1].tag = "ok" /\ fetched[2].tag = "AnalysisError"
          /\ fetched[3].tag = "Exception"
       \/ /\ Len(fetched) = 2 /\ fetched[2].tag = "Exception"

\* The reason the last soft failure of ticker t left in the failure map.
LastReason(t) ==
    fetched[CHOOSE j \in 1..Len(fetched) :
                /\ fetched[j].ticker = t /\ fetched[j].tag = "AnalysisError"
                /\ \A i \in (j + 1)..Len(fetched) :
                      ~(fetched[i].ticker = t /\ fetched[i].tag = "AnalysisError")].reason

C4_NoAnalysisIsFatal ==
    /\ (pc = "done" /\ NoUnexpectedError /\ TickersThat("ok") = {}) =>
          /\ outcome.kind = "AnalysisError"
          /\ outcome.message = "Unable to analyze any tickers"
          /\ outcome.ranked = <<>> /\ outcome.failures = <<>>
          /\ Keys(outcome.reasons) = InputTickers
          /\ Len(outcome.reasons) = Cardinality(InputTickers)
          /\ \A j \in 1..Len(outcome.reasons) :
                /\ outcome.reasons[j].reason = LastReason(outcome.reasons[j].ticker)
                /\ outcome.reasons[j].reason # ""
    /\ Returned => (scored # <<>> /\ TickersThat("ok") # {})

\* C4 witness: three tickers all soft-failed, for two different reasons, and
\* the run raised.
C4_Witness ==
    /\ RaisedError
    /\ Len(tickers) = 3 /\ Len(fetched) = 3
    /\ outcome.message = "Unable to analyze any tickers"
    /\ \E i, j \in 1..Len(outcome.reasons) :
          outcome.reasons[i].reason # outcome.reasons[j].reason

\* ------------------------------------------------------ claims C7 .. C10
\* C7 (as stated): ranked of every returned summary is sorted by
\* composite_score in non-increasing order.
C7_RankedNonIncreasing ==
    Returned =>
        \A j \in 1..(Len(outcome.ranked) - 1) :
            FGeq(outcome.ranked[j].composite_score, outcome.ranked[j + 1].composite_score)

\* C8 (as stated): under a cap top_n ranked has exactly
\* min(top_n, successfully analysed tickers) entries and no omitted ticker has
\* a strictly higher composite score than a returned one; without a cap every
\* successfully analysed ticker is returned.
C8_TopNKeepsTheHighest ==
    Returned =>
        IF args.capped
        THEN /\ Len(outcome.ranked) = Min(args.top_n, Len(analyses))
             /\ \A j \in 1..Len(outcome.ranked) : \A i \in 1..Len(scored) :
                   scored[i].ticker \notin RankedTickers
                     => ~FLess(outcome.ranked[j].composite_score, scored[i].composite_score)
        ELSE /\ Len(outcome.ranked) = Len(analyses)
             /\ RankedTickers = Keys(analyses)

\* The mean of the normalized scores of the valuation fields present for a.
PresentValueScores(a) ==
    {<<"pe", Get(scores.pe, a.ticker).score>> : x \in {a.pe_ratio} \ {None}}
    \cup {<<"pb", Get(scores.pb, a.ticker).score>> : x \in {a.pb_ratio} \ {None}}
    \cup {<<"fcf", Get(scores.fcf, a.ticker).score>> : x \in {a.free_cash_flow_yield} \ {None}}

RECURSIVE Total(_)
Total(S) ==
    IF S = {} THEN Zero
    ELSE LET e == CHOOSE x \in S : TRUE IN FAdd(e[2], Total(S \ {e}))

\* C9: the value_score of every ranked ticker is the unweighted mean of the
\* normalized P/E, P/B and FCF-yield scores of the fields present for that
\* ticker; with none present it is exactly 0.0, and the run still returns.
C9_ValueScoreIsMeanOfPresent ==
    /\ Returned =>
          /\ Len(scored) = Len(analyses)
          /\ \A j \in 1..Len(scored) :
                LET a == analyses[j]
                    present == PresentValueScores(a)
                IN  /\ scored[j].ticker = a.ticker
                    /\ scored[j].value_score =
                          IF present = {} THEN Zero
                          ELSE FDiv(Total(present), Int2F(Cardinality(present)))
          /\ \A j \in 1..Len(outcome.ranked) :
                outcome.ranked[j].value_score =
                    Get(scored, outcome.ranked[j].ticker).value_score
    /\ (pc = "done" /\ NoUnexpectedError /\ analyses # <<>>) => Returned

\* C9 witness: a returned ranking holds a ticker without any valuation field
\* and a ticker whose value_score is the mean 1/2 of two present fields.
C9_Witness ==
    /\ Returned
    /\ \E j \in 1..Len(outcome.ranked) :
          LET a == Get(analyses, outcome.ranked[j].ticker)
          IN  /\ PresentValueScores(a) = {}
              /\ outcome.ranked[j].value_score = Zero
    /\ \E j \in 1..Len(outcome.ranked) :
          LET a == Get(analyses, outcome.ranked[j].ticker)
          IN  /\ Cardinality(PresentValueScores(a)) = 2
              /\ outcome.ranked[j].value_score = Fl(1, 2)

\* Where the ticker of a sorted entry stood before the sort.
PlaceBeforeSort(e) == CHOOSE j \in 1..Len(scored) : scored[j].ticker = e.ticker

\* C10 (as stated): of two ranked tickers with equal composite_score the one
\* analysed earlier comes first in ranked (the descending sort is stable).
C10_TiesKeepInputOrder ==
    pc = "sorted" =>
        \A i, j \in 1..Len(ordered) :
            (i < j /\ FEq(ordered[i].composite_score, ordered[j].composite_score))
                => PlaceBeforeSort(ordered[i]) < PlaceBeforeSort(ordered[j])

=============================================================================
